---------------------------- MODULE Spec2Model ----------------------------
(***************************************************************************)
(* A model of the CHIP-8 virtual machine of this repository: the opcode    *)
(* decoder (src/opcode.rs), the execution engine (src/machine.rs) and the  *)
(* part of the SDL front end's main loop that acts on the machine          *)
(* (src/frontend/sdl.rs).                                                  *)
(*                                                                         *)
(* Representation.  memory is the finite map of the non-zero bytes of the  *)
(* 4096-byte array (an address outside its domain reads 0); screen is the  *)
(* set of the <<x, y>> whose pixel screen[y][x] is true.  Both are         *)
(* canonical, so equality of two values is equality of the arrays.  An     *)
(* index outside an array is a panic, as in the build.                     *)
(***************************************************************************)
EXTENDS Integers, Sequences, FiniteSets, TLC

VARIABLES
    chip8,          \* emulate_loop's machine (struct Chip8)
    saved_state,    \* emulate_loop's snapshot (F5 / F6)
    at,             \* where the front end is: "loop", "cycle" or "exit"
    keys,           \* cycle's argument, the key vector of the call in progress
    iters,          \* iterations left of cycle's for loop
    opcode_bytes,   \* cycle's local: the word fetched last
    opcode,         \* cycle's local: what the word decoded to
    result          \* what the last cycle call returned

vars == <<chip8, saved_state, at, keys, iters, opcode_bytes, opcode, result>>

--------------------------------------------------------------------------
(* Machine integers.                                                       *)

\* The bitwise operators, four bits at a time.
RECURSIVE And4(_, _, _)
And4(a, b, bits) ==
    IF bits = 0 THEN 0
    ELSE (a % 2) * (b % 2) + 2 * And4(a \div 2, b \div 2, bits - 1)

NibbleAnd == [a \in 0 .. 15 |-> [b \in 0 .. 15 |-> And4(a, b, 4)]]

RECURSIVE BitAnd(_, _)
BitAnd(a, b) ==
    IF a = 0 \/ b = 0 THEN 0
    ELSE NibbleAnd[a % 16][b % 16] + 16 * BitAnd(a \div 16, b \div 16)

\* a | b = a + b - (a & b), and a ^ b = a + b - 2 (a & b)
BitOr(a, b) == a + b - BitAnd(a, b)
BitXor(a, b) == a + b - 2 * BitAnd(a, b)

Shr(a, n) == a \div (2 ^ n)

\* A left shift of a u8: the bits shifted out are lost.
Shl8(a, n) == (a * (2 ^ n)) % 256

U16 == 0 .. 65535

PROGRAM_START == \h200
FONT_START == \h50
MEMORY_SIZE == 4096
REGISTER_COUNT == 16

FONTMAP ==
    << \hF0, \h90, \h90, \h90, \hF0,
       \h20, \h60, \h20, \h20, \h70,
       \hF0, \h10, \hF0, \h80, \hF0,
       \hF0, \h10, \hF0, \h10, \hF0,
       \h90, \h90, \hF0, \h10, \h10,
       \hF0, \h80, \hF0, \h10, \hF0,
       \hF0, \h80, \hF0, \h90, \hF0,
       \hF0, \h10, \h20, \h40, \h40,
       \hF0, \h90, \hF0, \h90, \hF0,
       \hF0, \h90, \hF0, \h10, \hF0,
       \hF0, \h90, \hF0, \h90, \h90,
       \hE0, \h90, \hE0, \h90, \hE0,
       \hF0, \h80, \h80, \h80, \hF0,
       \hE0, \h90, \h90, \h90, \hE0,
       \hF0, \h80, \hF0, \h80, \hF0,
       \hF0, \h80, \hF0, \h80, \h80 >>

--------------------------------------------------------------------------
(* The opcode decoder, src/opcode.rs.                                      *)

None == [some |-> FALSE]
Some(v) == [some |-> TRUE, value |-> v]

Ok(op) == [ok |-> TRUE, op |-> op]
Err(e) == [ok |-> FALSE, err |-> e]

UnrecognizedOpcode(bytes) == [kind |-> "UnrecognizedOpcode", bytes |-> bytes]
InvalidModeForSetRegToReg(byte) == [kind |-> "InvalidModeForSetRegToReg", byte |-> byte]

ClearScreen == [kind |-> "ClearScreen"]
Return == [kind |-> "Return"]
JumpTo(addr, plus_v0) == [kind |-> "JumpTo", addr |-> addr, plus_v0 |-> plus_v0]
Call(addr) == [kind |-> "Call", addr |-> addr]
SkipIfRegEqualConst(not_equal, reg, value) ==
    [kind |-> "SkipIfRegEqualConst", not_equal |-> not_equal, reg |-> reg, value |-> value]
SkipIfRegsEqual(not_equal, v_x, v_y) ==
    [kind |-> "SkipIfRegsEqual", not_equal |-> not_equal, regs |-> <<v_x, v_y>>]
SetRegToConst(add, reg, value) ==
    [kind |-> "SetRegToConst", add |-> add, reg |-> reg, value |-> value]
SetRegToReg(v_x, v_y, mode) ==
    [kind |-> "SetRegToReg", regs |-> <<v_x, v_y>>, mode |-> mode]
SetAddressReg(addr) == [kind |-> "SetAddressReg", addr |-> addr]
SetRegToRandom(reg, mask) == [kind |-> "SetRegToRandom", reg |-> reg, mask |-> mask]
DrawSprite(v_x, v_y, rows) == [kind |-> "DrawSprite", regs |-> <<v_x, v_y>>, rows |-> rows]
SkipIfKeyInRegPressed(not_pressed, reg) ==
    [kind |-> "SkipIfKeyInRegPressed", not_pressed |-> not_pressed, reg |-> reg]
WaitForKeyInReg(reg) == [kind |-> "WaitForKeyInReg", reg |-> reg]
SetRegToDelayTimer(reg) == [kind |-> "SetRegToDelayTimer", reg |-> reg]
SetDelayTimerToReg(reg) == [kind |-> "SetDelayTimerToReg", reg |-> reg]
SetSoundTimerToReg(reg) == [kind |-> "SetSoundTimerToReg", reg |-> reg]
AddRegToAddressReg(reg) == [kind |-> "AddRegToAddressReg", reg |-> reg]
SetAddressRegToCharInReg(reg) == [kind |-> "SetAddressRegToCharInReg", reg |-> reg]
RegToBCD(reg) == [kind |-> "RegToBCD", reg |-> reg]
DumpRegsToAddr(reg) == [kind |-> "DumpRegsToAddr", reg |-> reg]
LoadRegsFromAddr(reg) == [kind |-> "LoadRegsFromAddr", reg |-> reg]

\* A variant of SetRegMode_from_u8 that also accepts 0x8, as a copy.
SetRegMode_from_u8_accepts8(byte) ==
    CASE byte = \h0 -> Some("Copy")
      [] byte = \h1 -> Some("Or")
      [] byte = \h2 -> Some("And")
      [] byte = \h3 -> Some("Xor")
      [] byte = \h4 -> Some("Add")
      [] byte = \h5 -> Some("Subtract")
      [] byte = \h6 -> Some("ShiftRight")
      [] byte = \h7 -> Some("InverseSubtract")
      [] byte = \h8 -> Some("Copy")
      [] byte = \hE -> Some("ShiftLeft")
      [] OTHER -> None

SetRegMode_from_u8(byte) ==
    CASE byte = \h0 -> Some("Copy")
      [] byte = \h1 -> Some("Or")
      [] byte = \h2 -> Some("And")
      [] byte = \h3 -> Some("Xor")
      [] byte = \h4 -> Some("Add")
      [] byte = \h5 -> Some("Subtract")
      [] byte = \h6 -> Some("ShiftRight")
      [] byte = \h7 -> Some("InverseSubtract")
      [] byte = \hE -> Some("ShiftLeft")
      [] OTHER -> None

\* A variant of x_nibble that reads the Y field of the word.
x_nibble_reads_y(bytes) == Shr(BitAnd(bytes, \h00F0), 4)

\* ((bytes & 0x0F00) >> 8) as u8, the X field of a word
x_nibble(bytes) == Shr(BitAnd(bytes, \h0F00), 8)

\* ((bytes & 0x00F0) >> 4) as u8, the Y field of a word
y_nibble(bytes) == Shr(BitAnd(bytes, \h00F0), 4)

from_u16(bytes) ==
    LET msb == BitAnd(bytes, \hF000)
    IN  CASE msb = \h0000 ->
                 IF BitAnd(bytes, \h0F00) = \h000
                 THEN IF BitAnd(bytes, \h00F0) = \hE0
                      THEN CASE BitAnd(bytes, \h000F) = \h0 -> Ok(ClearScreen)
                             [] BitAnd(bytes, \h000F) = \hE -> Ok(Return)
                             [] OTHER -> Err(UnrecognizedOpcode(bytes))
                      ELSE Err(UnrecognizedOpcode(bytes))
                 ELSE Err(UnrecognizedOpcode(bytes))
          [] msb = \h1000 \/ msb = \hB000 ->
                 Ok(JumpTo(BitAnd(bytes, \h0FFF), msb = \hB000))
          [] msb = \h2000 -> Ok(Call(BitAnd(bytes, \h0FFF)))
          [] msb = \h3000 \/ msb = \h4000 ->
                 Ok(SkipIfRegEqualConst(msb = \h4000, x_nibble(bytes), BitAnd(bytes, \h00FF)))
          [] msb = \h5000 \/ msb = \h9000 ->
                 IF BitAnd(bytes, \h000F) = \h0
                 THEN Ok(SkipIfRegsEqual(msb = \h9000, x_nibble(bytes), y_nibble(bytes)))
                 ELSE Err(UnrecognizedOpcode(bytes))
          [] msb = \h6000 \/ msb = \h7000 ->
                 Ok(SetRegToConst(msb = \h7000, x_nibble(bytes), BitAnd(bytes, \h00FF)))
          [] msb = \h8000 ->
                 LET mode_byte == BitAnd(bytes, \h000F)
                     mode == SetRegMode_from_u8(mode_byte)
                 IN  IF mode.some
                     THEN Ok(SetRegToReg(x_nibble(bytes), y_nibble(bytes), mode.value))
                     ELSE Err(InvalidModeForSetRegToReg(mode_byte))
          [] msb = \hA000 -> Ok(SetAddressReg(BitAnd(bytes, \h0FFF)))
          [] msb = \hC000 -> Ok(SetRegToRandom(x_nibble(bytes), BitAnd(bytes, \h0FF)))
          [] msb = \hD000 ->
                 Ok(DrawSprite(x_nibble(bytes), y_nibble(bytes), BitAnd(bytes, \h000F)))
          [] msb = \hE000 ->
                 IF BitAnd(bytes, \h00FF) = \h9E \/ BitAnd(bytes, \h00FF) = \hA1
                 THEN Ok(SkipIfKeyInRegPressed(BitAnd(bytes, \h00FF) = \hA1, x_nibble(bytes)))
                 ELSE Err(UnrecognizedOpcode(bytes))
          [] msb = \hF000 ->
                 LET reg == x_nibble(bytes)
                     low == BitAnd(bytes, \h00FF)
                 IN  CASE low = \h07 -> Ok(SetRegToDelayTimer(reg))
                       [] low = \h0A -> Ok(WaitForKeyInReg(reg))
                       [] low = \h15 -> Ok(SetDelayTimerToReg(reg))
                       [] low = \h18 -> Ok(SetSoundTimerToReg(reg))
                       [] low = \h1E -> Ok(AddRegToAddressReg(reg))
                       [] low = \h29 -> Ok(SetAddressRegToCharInReg(reg))
                       [] low = \h33 -> Ok(RegToBCD(reg))
                       [] low = \h55 -> Ok(DumpRegsToAddr(reg))
                       [] low = \h65 -> Ok(LoadRegsFromAddr(reg))
                       [] OTHER -> Err(UnrecognizedOpcode(bytes))
          [] OTHER -> Err(UnrecognizedOpcode(bytes))

--------------------------------------------------------------------------
(* The machine, src/machine.rs.                                            *)

EmptyCallStack == [kind |-> "EmptyCallStack"]
OpcodeErr(err) == [kind |-> "OpcodeErr", err |-> err]
\* An index outside an array, or an overflow in a build that checks them: the
\* thread panics and the call never returns.
Panicked == [kind |-> "panic"]
Returned == [kind |-> "Ok"]

\* self.memory[i], for an index inside the array
mem_read(memory, i) == IF i \in DOMAIN memory THEN memory[i] ELSE 0

\* self.memory[i] = v, for an index inside the array
mem_write(memory, i, v) ==
    [a \in (IF v = 0 THEN DOMAIN memory \ {i} ELSE DOMAIN memory \cup {i}) |->
        IF a = i THEN v ELSE memory[a]]

in_memory(i) == i >= 0 /\ i < MEMORY_SIZE

\* a + b on u16: the sum the build computes when it does not panic
add_u16(a, b) == (a + b) % 65536

\* whether a + b on u16 overflows (a panic in a build with overflow checks)
overflows_u16(a, b) == a + b > 65535

inject_fontmap(m) ==
    [m EXCEPT !.memory =
        [a \in DOMAIN m.memory \cup {FONT_START + offset : offset \in 0 .. Len(FONTMAP) - 1} |->
            IF a >= FONT_START /\ a < FONT_START + Len(FONTMAP)
            THEN FONTMAP[a - FONT_START + 1]
            ELSE m.memory[a]]]

new ==
    inject_fontmap(
        [memory |-> <<>>,
         regs |-> [r \in 0 .. REGISTER_COUNT - 1 |-> 0],
         address_reg |-> 0,
         pc |-> PROGRAM_START,
         stack |-> <<>>,
         delay_timer |-> 0,
         sound_timer |-> 0,
         screen |-> {},
         awaiting_key |-> None,
         speed |-> 7])

\* load_program for a program that fits in memory; bytes is a sequence of u8
RECURSIVE load_program(_, _, _)
load_program(m, bytes, offset) ==
    IF offset >= Len(bytes) THEN m
    ELSE load_program(
             [m EXCEPT !.memory = mem_write(m.memory, offset + PROGRAM_START, bytes[offset + 1])],
             bytes, offset + 1)

\* A variant of clone that starts the copy with an empty stack.
clone_without_stack(self) ==
    [memory |-> [a \in DOMAIN self.memory |-> self.memory[a]],
     regs |-> [r \in 0 .. REGISTER_COUNT - 1 |-> self.regs[r]],
     address_reg |-> self.address_reg,
     pc |-> self.pc,
     stack |-> <<>>,
     delay_timer |-> self.delay_timer,
     sound_timer |-> self.sound_timer,
     screen |-> {p \in self.screen : TRUE},
     awaiting_key |-> self.awaiting_key,
     speed |-> self.speed]

\* Clone for Chip8: every field copied, element by element
clone(self) ==
    [memory |-> [a \in DOMAIN self.memory |-> self.memory[a]],
     regs |-> [r \in 0 .. REGISTER_COUNT - 1 |-> self.regs[r]],
     address_reg |-> self.address_reg,
     pc |-> self.pc,
     stack |-> [i \in 1 .. Len(self.stack) |-> self.stack[i]],
     delay_timer |-> self.delay_timer,
     sound_timer |-> self.sound_timer,
     screen |-> {p \in self.screen : TRUE},
     awaiting_key |-> self.awaiting_key,
     speed |-> self.speed]

\* The scan of the key vector at the start of cycle, from index offset on.
RECURSIVE key_scan(_, _, _, _)
key_scan(m, reg, ks, offset) ==
    IF offset >= 16 THEN m
    ELSE key_scan(
             IF ks[offset]
             THEN [m EXCEPT !.regs[reg] = offset, !.awaiting_key = None]
             ELSE m,
             reg, ks, offset + 1)

\* A variant of resolve_key that drops a pending wait when no key is pressed.
resolve_key_drops_wait(m, ks) ==
    IF m.awaiting_key.some
    THEN [key_scan(m, m.awaiting_key.value, ks, 0) EXCEPT !.awaiting_key = None]
    ELSE m

resolve_key(m, ks) ==
    IF m.awaiting_key.some THEN key_scan(m, m.awaiting_key.value, ks, 0) ELSE m

\* A variant of clear_screen that leaves the pixels as they are.
clear_screen_keeps_pixels(m) == m

clear_screen(m) == [m EXCEPT !.screen = {}]

\* A variant of set_pixel that sets the pixel instead of toggling it.
set_pixel_sets(m, x, y) ==
    LET xw == BitAnd(x, 63)
        yw == BitAnd(y, 31)
        previous_state == <<xw, yw>> \in m.screen
    IN  [m |-> [m EXCEPT !.screen = m.screen \cup {<<xw, yw>>}],
         unset |-> previous_state]

\* set_pixel: the machine after the toggle, and whether the pixel was set before
set_pixel(m, x, y) ==
    LET xw == BitAnd(x, 63)
        yw == BitAnd(y, 31)
        previous_state == <<xw, yw>> \in m.screen
    IN  [m |-> [m EXCEPT !.screen =
                    IF previous_state THEN m.screen \ {<<xw, yw>>}
                    ELSE m.screen \cup {<<xw, yw>>}],
         unset |-> previous_state]

\* A variant of update_timers that forgets the sound timer.
update_timers_delay_only(m) ==
    [m EXCEPT !.delay_timer = IF m.delay_timer > 0 THEN m.delay_timer - 1 ELSE m.delay_timer]

update_timers(m) ==
    LET d == IF m.delay_timer > 0 THEN m.delay_timer - 1 ELSE m.delay_timer
        s == IF m.sound_timer > 0 THEN m.sound_timer - 1 ELSE m.sound_timer
    IN  [m EXCEPT !.delay_timer = d, !.sound_timer = s]

done(m) == [m |-> m, res |-> Returned]
failed(m, e) == [m |-> m, res |-> e]

\* A variant of exec_Return that jumps to 0 on an empty stack before failing.
exec_Return_clobbers_pc(m) ==
    IF Len(m.stack) = 0 THEN failed([m EXCEPT !.pc = 0], EmptyCallStack)
    ELSE done([m EXCEPT !.pc = m.stack[Len(m.stack)],
                        !.stack = SubSeq(m.stack, 1, Len(m.stack) - 1)])

exec_Return(m) ==
    IF Len(m.stack) = 0 THEN failed(m, EmptyCallStack)
    ELSE done([m EXCEPT !.pc = m.stack[Len(m.stack)],
                        !.stack = SubSeq(m.stack, 1, Len(m.stack) - 1)])

\* A variant of exec_JumpTo that leaves PC at the address after the jump.
exec_JumpTo_keeps_pc(m, addr, plus_v0) == done(m)

exec_JumpTo(m, addr, plus_v0) ==
    done([m EXCEPT !.pc = IF plus_v0 THEN addr + m.regs[0] ELSE addr])

\* A variant of exec_Call that pushes the address of the call itself.
exec_Call_pushes_call_site(m, addr) ==
    done([m EXCEPT !.stack = Append(m.stack, m.pc - 2), !.pc = addr])

exec_Call(m, addr) ==
    done([m EXCEPT !.stack = Append(m.stack, m.pc), !.pc = addr])

\* A variant of skip_if that ignores the negation flag.
skip_if_ignores_negate(m, should_jump, negate) ==
    done(IF should_jump THEN [m EXCEPT !.pc = m.pc + 2] ELSE m)

\* The tail shared by the three skip instructions.
skip_if(m, should_jump, negate) ==
    LET jump == IF negate THEN ~should_jump ELSE should_jump
    IN  done(IF jump THEN [m EXCEPT !.pc = m.pc + 2] ELSE m)

exec_SkipIfRegEqualConst(m, not_equal, reg, value) ==
    skip_if(m, m.regs[reg] = value, not_equal)

exec_SkipIfRegsEqual(m, not_equal, v_x, v_y) ==
    skip_if(m, m.regs[v_x] = m.regs[v_y], not_equal)

exec_SetRegToConst(m, add, reg, value) ==
    done([m EXCEPT !.regs[reg] =
            IF add THEN BitAnd(m.regs[reg] + value, 255) ELSE value])

exec_Add(m, v_x, v_y) ==
    LET r0 == [m.regs EXCEPT ![15] = 0]
        sum == r0[v_x] + r0[v_y]
        r1 == IF sum > 255 THEN [r0 EXCEPT ![15] = 1] ELSE r0
        reg_value == IF sum > 255 THEN sum - 256 ELSE sum
    IN  done([m EXCEPT !.regs = [r1 EXCEPT ![v_x] = reg_value]])

exec_Subtract(m, v_x, v_y, mode) ==
    LET r0 == [m.regs EXCEPT ![15] = 1]
        diff == IF mode = "Subtract" THEN r0[v_x] - r0[v_y] ELSE r0[v_y] - r0[v_x]
        r1 == IF diff < 0 THEN [r0 EXCEPT ![15] = 0] ELSE r0
        reg_value == IF diff < 0 THEN diff + 256 ELSE diff
    IN  done([m EXCEPT !.regs = [r1 EXCEPT ![v_x] = reg_value]])

exec_ShiftLeft(m, v_x) ==
    LET r0 == [m.regs EXCEPT ![15] = BitAnd(m.regs[v_x], 128)]
    IN  done([m EXCEPT !.regs = [r0 EXCEPT ![v_x] = Shl8(r0[v_x], 1)]])

exec_ShiftRight(m, v_x) ==
    LET r0 == [m.regs EXCEPT ![15] = BitAnd(m.regs[v_x], 1)]
    IN  done([m EXCEPT !.regs = [r0 EXCEPT ![v_x] = Shr(r0[v_x], 1)]])

exec_SetRegToReg(m, v_x, v_y, mode) ==
    CASE mode = "Copy" -> done([m EXCEPT !.regs[v_x] = m.regs[v_y]])
      [] mode = "Or" -> done([m EXCEPT !.regs[v_x] = BitOr(m.regs[v_x], m.regs[v_y])])
      [] mode = "And" -> done([m EXCEPT !.regs[v_x] = BitAnd(m.regs[v_x], m.regs[v_y])])
      [] mode = "Xor" -> done([m EXCEPT !.regs[v_x] = BitXor(m.regs[v_x], m.regs[v_y])])
      [] mode = "Add" -> exec_Add(m, v_x, v_y)
      [] mode = "Subtract" \/ mode = "InverseSubtract" -> exec_Subtract(m, v_x, v_y, mode)
      [] mode = "ShiftLeft" -> exec_ShiftLeft(m, v_x)
      [] mode = "ShiftRight" -> exec_ShiftRight(m, v_x)

\* The inner loop of DrawSprite: the columns col .. 7 of one sprite row.
RECURSIVE draw_cols(_, _, _, _, _, _)
draw_cols(m, x, y, row, sprite_slice, col) ==
    IF col >= 8 THEN m
    ELSE IF BitAnd(sprite_slice, Shr(128, col)) # 0
         THEN LET t == set_pixel(m, x + col, y + row)
              IN  draw_cols(IF t.unset THEN [t.m EXCEPT !.regs[15] = 1] ELSE t.m,
                            x, y, row, sprite_slice, col + 1)
         ELSE draw_cols(m, x, y, row, sprite_slice, col + 1)

\* The outer loop of DrawSprite: the sprite rows row .. rows - 1.
RECURSIVE draw_rows(_, _, _, _, _, _)
draw_rows(m, x, y, row, rows, checked) ==
    IF row >= rows THEN done(m)
    ELSE IF (checked /\ overflows_u16(m.address_reg, row))
            \/ ~in_memory(add_u16(m.address_reg, row))
         THEN failed(m, Panicked)
         ELSE draw_rows(draw_cols(m, x, y, row,
                                  mem_read(m.memory, add_u16(m.address_reg, row)), 0),
                        x, y, row + 1, rows, checked)

\* A variant of exec_DrawSprite that does not clear VF before the sprite.
exec_DrawSprite_keeps_flag(m, v_x, v_y, rows, checked) ==
    draw_rows(m, m.regs[v_x], m.regs[v_y], 0, rows, checked)

exec_DrawSprite(m, v_x, v_y, rows, checked) ==
    LET x == m.regs[v_x]
        y == m.regs[v_y]
    IN  draw_rows([m EXCEPT !.regs[15] = 0], x, y, 0, rows, checked)

exec_AddRegToAddressReg(m, reg, checked) ==
    IF checked /\ overflows_u16(m.address_reg, m.regs[reg])
    THEN failed(m, Panicked)
    ELSE done([m EXCEPT !.address_reg = add_u16(m.address_reg, m.regs[reg])])

exec_SetAddressRegToCharInReg(m, reg) ==
    done([m EXCEPT !.address_reg = FONT_START + m.regs[reg] * 5])

exec_SkipIfKeyInRegPressed(m, not_pressed, reg, ks) ==
    IF m.regs[reg] >= 16 THEN failed(m, Panicked)
    ELSE skip_if(m, ks[m.regs[reg]], not_pressed)

\* The three stores of RegToBCD, from the k-th on; digits are the three digits.
RECURSIVE bcd_store(_, _, _, _)
bcd_store(m, digits, k, checked) ==
    IF k >= 3 THEN done(m)
    ELSE IF (checked /\ overflows_u16(m.address_reg, k))
            \/ ~in_memory(add_u16(m.address_reg, k))
         THEN failed(m, Panicked)
         ELSE bcd_store([m EXCEPT !.memory =
                            mem_write(m.memory, add_u16(m.address_reg, k), digits[k + 1])],
                        digits, k + 1, checked)

\* A variant of exec_RegToBCD whose tens digit is not reduced modulo 10.
exec_RegToBCD_tens_unreduced(m, reg, checked) ==
    LET number == m.regs[reg]
        hundreds_digit == number \div 100
        tens_digit == number \div 10
        ones_digit == number % 10
    IN  bcd_store(m, <<hundreds_digit, tens_digit, ones_digit>>, 0, checked)

exec_RegToBCD(m, reg, checked) ==
    LET number == m.regs[reg]
        hundreds_digit == number \div 100
        tens_digit == (number \div 10) % 10
        ones_digit == number % 10
    IN  bcd_store(m, <<hundreds_digit, tens_digit, ones_digit>>, 0, checked)

\* A variant of DumpRegsToAddr whose loop is 0..reg, without register reg.
RECURSIVE exec_DumpRegsToAddr_exclusive(_, _, _, _)
exec_DumpRegsToAddr_exclusive(m, reg, cur_reg, checked) ==
    IF cur_reg >= reg THEN done(m)
    ELSE IF (checked /\ overflows_u16(m.address_reg, cur_reg))
            \/ ~in_memory(add_u16(m.address_reg, cur_reg))
         THEN failed(m, Panicked)
         ELSE exec_DumpRegsToAddr_exclusive(
                  [m EXCEPT !.memory =
                      mem_write(m.memory, add_u16(m.address_reg, cur_reg), m.regs[cur_reg])],
                  reg, cur_reg + 1, checked)

\* The loop of DumpRegsToAddr, from register cur_reg on.
RECURSIVE exec_DumpRegsToAddr(_, _, _, _)
exec_DumpRegsToAddr(m, reg, cur_reg, checked) ==
    IF cur_reg >= reg + 1 THEN done(m)
    ELSE IF (checked /\ overflows_u16(m.address_reg, cur_reg))
            \/ ~in_memory(add_u16(m.address_reg, cur_reg))
         THEN failed(m, Panicked)
         ELSE exec_DumpRegsToAddr(
                  [m EXCEPT !.memory =
                      mem_write(m.memory, add_u16(m.address_reg, cur_reg), m.regs[cur_reg])],
                  reg, cur_reg + 1, checked)

\* The loop of LoadRegsFromAddr, from register cur_reg on.
RECURSIVE exec_LoadRegsFromAddr(_, _, _, _)
exec_LoadRegsFromAddr(m, reg, cur_reg, checked) ==
    IF cur_reg >= reg + 1 THEN done(m)
    ELSE IF (checked /\ overflows_u16(m.address_reg, cur_reg))
            \/ ~in_memory(add_u16(m.address_reg, cur_reg))
         THEN failed(m, Panicked)
         ELSE exec_LoadRegsFromAddr(
                  [m EXCEPT !.regs[cur_reg] =
                      mem_read(m.memory, add_u16(m.address_reg, cur_reg))],
                  reg, cur_reg + 1, checked)

\* execute_opcode.  rand is the byte thread_rng() yields; checked says whether
\* the build panics on integer overflow (a debug build) or wraps (a release one).
execute_opcode(m, op, ks, rand, checked) ==
    CASE op.kind = "ClearScreen" -> done(clear_screen(m))
      [] op.kind = "Return" -> exec_Return(m)
      [] op.kind = "JumpTo" -> exec_JumpTo(m, op.addr, op.plus_v0)
      [] op.kind = "Call" -> exec_Call(m, op.addr)
      [] op.kind = "SkipIfRegEqualConst" ->
             exec_SkipIfRegEqualConst(m, op.not_equal, op.reg, op.value)
      [] op.kind = "SkipIfRegsEqual" ->
             exec_SkipIfRegsEqual(m, op.not_equal, op.regs[1], op.regs[2])
      [] op.kind = "SetRegToConst" -> exec_SetRegToConst(m, op.add, op.reg, op.value)
      [] op.kind = "SetRegToReg" -> exec_SetRegToReg(m, op.regs[1], op.regs[2], op.mode)
      [] op.kind = "SetAddressReg" -> done([m EXCEPT !.address_reg = op.addr])
      [] op.kind = "SetRegToRandom" -> done([m EXCEPT !.regs[op.reg] = BitAnd(rand, op.mask)])
      [] op.kind = "DrawSprite" -> exec_DrawSprite(m, op.regs[1], op.regs[2], op.rows, checked)
      [] op.kind = "SetRegToDelayTimer" ->
             done([m EXCEPT !.regs[op.reg] = m.delay_timer % 256])
      [] op.kind = "SetDelayTimerToReg" -> done([m EXCEPT !.delay_timer = m.regs[op.reg]])
      [] op.kind = "SetSoundTimerToReg" -> done([m EXCEPT !.sound_timer = m.regs[op.reg]])
      [] op.kind = "AddRegToAddressReg" -> exec_AddRegToAddressReg(m, op.reg, checked)
      [] op.kind = "SetAddressRegToCharInReg" -> exec_SetAddressRegToCharInReg(m, op.reg)
      [] op.kind = "WaitForKeyInReg" -> done([m EXCEPT !.awaiting_key = Some(op.reg)])
      [] op.kind = "SkipIfKeyInRegPressed" ->
             exec_SkipIfKeyInRegPressed(m, op.not_pressed, op.reg, ks)
      [] op.kind = "RegToBCD" -> exec_RegToBCD(m, op.reg, checked)
      [] op.kind = "DumpRegsToAddr" -> exec_DumpRegsToAddr(m, op.reg, 0, checked)
      [] op.kind = "LoadRegsFromAddr" -> exec_LoadRegsFromAddr(m, op.reg, 0, checked)

\* Whether the two bytes of the word at pc lie inside memory.
can_fetch(m) == in_memory(m.pc) /\ in_memory(m.pc + 1)

\* (self.memory[pc_index] as u16) << 8 | (self.memory[pc_index + 1] as u16)
fetch(m) == BitOr(mem_read(m.memory, m.pc) * 256, mem_read(m.memory, m.pc + 1))

\* self.pc += 2, after a fetch (which leaves pc + 2 within u16)
advance_pc(m) == [m EXCEPT !.pc = m.pc + 2]

\* A variant of loop_count with the range 0..self.speed.
loop_count_speed(m) == IF m.speed > 0 THEN m.speed ELSE 0

\* A variant of loop_count that runs no instruction while a key wait is pending.
loop_count_suspended(m) ==
    IF m.awaiting_key.some THEN 0 ELSE IF m.speed + 1 > 0 THEN m.speed + 1 ELSE 0

\* The number of iterations of `for _ in 0..self.speed + 1`.
loop_count(m) == IF m.speed + 1 > 0 THEN m.speed + 1 ELSE 0

--------------------------------------------------------------------------
(* Bounds and inputs.                                                      *)

\* KeyDown(Right) is not taken above this speed.
MaxSpeed == 7

\* The key vector with exactly the keys of S pressed.
keys_of(S) == [i \in 0 .. 15 |-> i \in S]
NoKeys == keys_of({})

\* The key vectors get_keys is taken to return.
KeyVectors == {keys_of({}), keys_of({4}), keys_of({2, 9}), keys_of({0, 7, 15})}

\* No instruction is run with more return addresses than this on the stack.
MaxStack == 3

\* The bytes thread_rng().gen() is taken to yield.
RandSamples == {\h00, \h5A, \hA5, \hFF}

\* The bytes thread_rng().gen() may yield for the instruction at pc: it is
\* called by CXNN alone.
rand_choices(m) ==
    IF can_fetch(m) /\ mem_read(m.memory, m.pc) \div 16 = \hC THEN RandSamples ELSE {0}

\* Whether overflow checks are compiled in: it matters only where the address
\* register is close enough to 2^16 for an instruction to overflow it.
build_choices(m) == IF m.address_reg + 255 > 65535 THEN BOOLEAN ELSE {FALSE}

NotFetched == Err([kind |-> "NotFetched"])
NotCalled == [kind |-> "NotCalled"]

\* The programs loaded by the front end's specification.
Programs ==
    { << \h60, \h05, \h61, \h05, \h80, \h14 >>,                    \* spec.md's add scenario
      << \hF3, \h0A, \h12, \h02 >>,                                \* wait for a key, then spin
      << \h60, \h03, \hF0, \h15, \h00, \hEE >>,                    \* set the delay timer, return
      << \h60, \h02, \hF0, \h15, \h61, \h01, \hF1, \h18, \h12, \h08 >> } \* both timers, then spin

--------------------------------------------------------------------------
(* emulate_loop and cycle, step by step.                                   *)

\* The state emulate_loop starts in, for a machine made by main.
Started(m) ==
    /\ chip8 = m
    /\ saved_state = clone(m)
    /\ at = "loop"
    /\ keys = NoKeys
    /\ iters = 0
    /\ opcode_bytes = 0
    /\ opcode = NotFetched
    /\ result = NotCalled

Init == \E program \in Programs : Started(load_program(new, program, 0))

\* Event::KeyDown F5
KeyDownF5 ==
    /\ at = "loop"
    /\ saved_state' = clone(chip8)
    /\ UNCHANGED <<chip8, at, keys, iters, opcode_bytes, opcode, result>>

\* Event::KeyDown F6
KeyDownF6 ==
    /\ at = "loop"
    /\ chip8' = clone(saved_state)
    /\ UNCHANGED <<saved_state, at, keys, iters, opcode_bytes, opcode, result>>

\* A variant of KeyDownLeft that lowers the speed whatever it is.
KeyDownLeft_unguarded ==
    /\ at = "loop"
    /\ chip8' = [chip8 EXCEPT !.speed = chip8.speed - 1]
    /\ UNCHANGED <<saved_state, at, keys, iters, opcode_bytes, opcode, result>>

\* Event::KeyDown Left
KeyDownLeft ==
    /\ at = "loop"
    /\ chip8' = IF chip8.speed - 1 >= 0 THEN [chip8 EXCEPT !.speed = chip8.speed - 1] ELSE chip8
    /\ UNCHANGED <<saved_state, at, keys, iters, opcode_bytes, opcode, result>>

\* Event::KeyDown Right
KeyDownRight ==
    /\ at = "loop"
    /\ chip8.speed < MaxSpeed
    /\ chip8' = [chip8 EXCEPT !.speed = chip8.speed + 1]
    /\ UNCHANGED <<saved_state, at, keys, iters, opcode_bytes, opcode, result>>

\* chip8.cycle(self.get_keys()) up to the for loop: the key wait and the range.
CycleBegin(ks) ==
    /\ at = "loop"
    /\ chip8' = resolve_key(chip8, ks)
    /\ keys' = ks
    /\ iters' = loop_count(chip8)
    /\ at' = "cycle"
    /\ UNCHANGED <<saved_state, opcode_bytes, opcode, result>>

\* A variant of CycleStep that advances PC before it decodes, so that a word
\* that does not decode is skipped.
CycleStep_skips_bad_word(rand, checked) ==
    /\ at = "cycle"
    /\ iters > 0
    /\ Len(chip8.stack) <= MaxStack
    /\ IF ~can_fetch(chip8)
       THEN /\ result' = Panicked
            /\ at' = "exit"
            /\ UNCHANGED <<chip8, iters, opcode_bytes, opcode>>
       ELSE LET bytes == fetch(chip8)
                decoded == from_u16(bytes)
            IN  /\ opcode_bytes' = bytes
                /\ opcode' = decoded
                /\ IF ~decoded.ok
                   THEN /\ result' = OpcodeErr(decoded.err)
                        /\ at' = "exit"
                        /\ chip8' = advance_pc(chip8)
                        /\ UNCHANGED iters
                   ELSE LET r == execute_opcode(advance_pc(chip8), decoded.op, keys, rand, checked)
                        IN  /\ chip8' = r.m
                            /\ IF r.res = Returned
                               THEN /\ iters' = iters - 1
                                    /\ UNCHANGED <<at, result>>
                               ELSE /\ result' = r.res
                                    /\ at' = "exit"
                                    /\ UNCHANGED iters
    /\ UNCHANGED <<saved_state, keys>>

\* One iteration of cycle's for loop.  A decode or runtime error returns from
\* cycle, and emulate_loop panics on it; a panic ends the program as well.
CycleStep(rand, checked) ==
    /\ at = "cycle"
    /\ iters > 0
    /\ Len(chip8.stack) <= MaxStack
    /\ IF ~can_fetch(chip8)
       THEN /\ result' = Panicked
            /\ at' = "exit"
            /\ UNCHANGED <<chip8, iters, opcode_bytes, opcode>>
       ELSE LET bytes == fetch(chip8)
                decoded == from_u16(bytes)
            IN  /\ opcode_bytes' = bytes
                /\ opcode' = decoded
                /\ IF ~decoded.ok
                   THEN /\ result' = OpcodeErr(decoded.err)
                        /\ at' = "exit"
                        /\ UNCHANGED <<chip8, iters>>
                   ELSE LET r == execute_opcode(advance_pc(chip8), decoded.op, keys, rand, checked)
                        IN  /\ chip8' = r.m
                            /\ IF r.res = Returned
                               THEN /\ iters' = iters - 1
                                    /\ UNCHANGED <<at, result>>
                               ELSE /\ result' = r.res
                                    /\ at' = "exit"
                                    /\ UNCHANGED iters
    /\ UNCHANGED <<saved_state, keys>>

\* The end of cycle: update_timers, Ok(()), and back in emulate_loop.
CycleEnd ==
    /\ at = "cycle"
    /\ iters = 0
    /\ chip8' = update_timers(chip8)
    /\ result' = Returned
    /\ at' = "loop"
    /\ keys' = NoKeys
    /\ UNCHANGED <<saved_state, iters, opcode_bytes, opcode>>

\* The calls of cycle alone, with get_keys returning key vectors of KS.
Cycle(KS) ==
    \/ \E ks \in KS : CycleBegin(ks)
    \/ \E rand \in rand_choices(chip8), checked \in build_choices(chip8) : CycleStep(rand, checked)
    \/ CycleEnd

Next ==
    \/ KeyDownF5
    \/ KeyDownF6
    \/ KeyDownLeft
    \/ KeyDownRight
    \/ Cycle(KeyVectors)

Spec == Init /\ [][Next]_vars

--------------------------------------------------------------------------
(* Properties of cycle, checked under Spec.                                *)

\* The word the program holds at address a, read the big-endian way.
word_at(m, a) == mem_read(m.memory, a) * 256 + mem_read(m.memory, a + 1)

\* The step about to be taken is an iteration of cycle's loop on the word w.
about_to_run(w) == at = "cycle" /\ iters > 0 /\ can_fetch(chip8) /\ word_at(chip8, chip8.pc) = w

\* The pressed keys of a key vector.
pressed(ks) == {i \in 0 .. 15 : ks[i]}
lowest(S) == CHOOSE i \in S : \A j \in S : i <= j

\* C3: when cycle is called while a key wait is pending on register R and a
\* key is pressed, the lowest pressed index is written to VR and the wait is
\* cleared.
C3_LowestPressedKeyWins ==
    [][ (at = "loop" /\ at' = "cycle" /\ chip8.awaiting_key.some /\ pressed(keys') # {})
        => /\ chip8'.regs[chip8.awaiting_key.value] = lowest(pressed(keys'))
           /\ ~chip8'.awaiting_key.some ]_vars

\* C4 as stated: a return with an empty call stack ends the call with
\* EmptyCallStack, the stack stays empty, and PC is what it was before the
\* return instruction was fetched.
C4_EmptyReturnLeavesPC ==
    [][ (about_to_run(\h00EE) /\ chip8.stack = <<>>)
        => /\ result' = EmptyCallStack
           /\ at' = "exit"
           /\ chip8'.stack = <<>>
           /\ chip8'.pc = chip8.pc ]_vars

\* C4 as amended: a return with an empty call stack ends the call with
\* EmptyCallStack and the stack stays empty; PC keeps the advance of the fetch
\* (the address of the return instruction plus 2) and nothing else changes.
C4_EmptyReturnKeepsFetchAdvance ==
    [][ (about_to_run(\h00EE) /\ chip8.stack = <<>>)
        => /\ result' = EmptyCallStack
           /\ at' = "exit"
           /\ chip8' = [chip8 EXCEPT !.pc = chip8.pc + 2] ]_vars

\* C4's case: a call has ended on a return executed with an empty stack.
C4_Witness ==
    /\ at = "exit"
    /\ result = EmptyCallStack
    /\ opcode_bytes = \h00EE
    /\ chip8.stack = <<>>
    /\ chip8.pc = PROGRAM_START + 6

\* A timer after one update: one less, and zero stays zero.
ticked(t) == IF t > 0 THEN t - 1 ELSE 0

\* The step leaves the timers alone, or is an instruction that sets one of
\* them from a register.
timers_kept_or_set ==
    /\ \/ chip8'.delay_timer = chip8.delay_timer
       \/ /\ at = "cycle" /\ opcode'.ok /\ opcode'.op.kind = "SetDelayTimerToReg"
          /\ chip8'.delay_timer = chip8.regs[opcode'.op.reg]
    /\ \/ chip8'.sound_timer = chip8.sound_timer
       \/ /\ at = "cycle" /\ opcode'.ok /\ opcode'.op.kind = "SetSoundTimerToReg"
          /\ chip8'.sound_timer = chip8.regs[opcode'.op.reg]

\* C9 as stated: the step that ends a cycle call, with success or with an
\* error, decrements both timers (floor at zero); no other step of the call
\* decrements them; no timer is ever below zero.
C9_TimersTickOnEveryCall ==
    [][ /\ (at = "cycle" /\ at' # "cycle")
           => /\ chip8'.delay_timer = ticked(chip8.delay_timer)
              /\ chip8'.sound_timer = ticked(chip8.sound_timer)
        /\ (at' = "cycle") => timers_kept_or_set
        /\ chip8'.delay_timer >= 0 /\ chip8'.sound_timer >= 0 ]_vars

\* C9 as amended: the step that ends a successful cycle call decrements both
\* timers by one (floor at zero), once, whatever the speed; a call that ends in
\* an error ends without the update; no other step decrements a timer, and no
\* timer is ever below zero.
C9_TimersTickOnSuccess ==
    [][ /\ (at = "cycle" /\ at' = "loop")
           => /\ result' = Returned
              /\ chip8'.delay_timer = ticked(chip8.delay_timer)
              /\ chip8'.sound_timer = ticked(chip8.sound_timer)
        /\ (at = "cycle" /\ at' = "exit")
           => /\ result' # Returned
              /\ timers_kept_or_set
        /\ (at' = "cycle") => timers_kept_or_set
        /\ chip8'.delay_timer >= 0 /\ chip8'.sound_timer >= 0 ]_vars

\* C9's case: a call of more than one instruction has returned success with
\* the delay timer decremented from 2 to 1 and the sound timer from 1 to 0.
C9_Witness ==
    /\ at = "loop"
    /\ result = Returned
    /\ chip8.speed > 0
    /\ chip8.regs[0] = 2 /\ chip8.delay_timer = 1
    /\ chip8.regs[1] = 1 /\ chip8.sound_timer = 0
    /\ opcode_bytes = \h1208

\* The instructions that leave PC at the address after them.
falls_through(op) ==
    op.kind \notin {"Return", "JumpTo", "Call", "SkipIfRegEqualConst", "SkipIfRegsEqual",
                    "SkipIfKeyInRegPressed"}

\* spec.md's scenario program is the one loaded.
scenario_loaded(m) ==
    /\ word_at(m, PROGRAM_START) = \h6005
    /\ word_at(m, PROGRAM_START + 2) = \h6105
    /\ word_at(m, PROGRAM_START + 4) = \h8014

\* C10: a successful cycle call runs speed + 1 iterations, each fetching the
\* big-endian word at PC, decoding it, advancing PC by 2 and executing it; the
\* scenario program leaves V0 = 10, V1 = 5, VF = 0 at PC = 0x206.
C10_CycleRunsSpeedPlusOne ==
    [][ /\ (at = "loop" /\ at' = "cycle") => iters' = chip8.speed + 1
        /\ (at = "cycle" /\ at' = "cycle")
           => /\ iters' = iters - 1
              /\ opcode_bytes' = word_at(chip8, chip8.pc)
              /\ opcode' = from_u16(opcode_bytes')
              /\ opcode'.ok
              /\ falls_through(opcode'.op) => chip8'.pc = chip8.pc + 2
        /\ (at = "cycle" /\ at' = "loop") => iters = 0
        /\ (scenario_loaded(chip8') /\ chip8'.pc = PROGRAM_START + 6)
           => chip8'.regs[0] = 10 /\ chip8'.regs[1] = 5 /\ chip8'.regs[15] = 0 ]_vars

\* C10's case: at speed 0, with the machine saved after the second call, the
\* third call has returned success at PC = 0x206.
C10_Witness ==
    /\ at = "loop"
    /\ result = Returned
    /\ scenario_loaded(chip8)
    /\ chip8.speed = 0 /\ saved_state.speed = 0
    /\ saved_state.pc = PROGRAM_START + 4
    /\ chip8.pc = PROGRAM_START + 6
    /\ chip8.regs[0] = 10 /\ chip8.regs[1] = 5 /\ chip8.regs[15] = 0

--------------------------------------------------------------------------
(* The register-to-register instructions, checked under SpecAlu: every      *)
(* pair of registers, sampled values, the three instructions in one call.   *)

\* A machine made by main and slowed to the given speed, as the front end does
\* by KeyDown(Left) before its first cycle (7 - speed times).
slowed(program, speed) == [load_program(new, program, 0) EXCEPT !.speed = speed]

\* The values the operand registers are loaded with.
ByteSamples == {0, 1, 128, 255}

\* The mode nibbles of the instructions under test.
AluModes == {\h4, \h5, \h7}

\* VX := a; VY := b; 8XY<mode>
alu_program(X, a, Y, b, mode) ==
    << \h60 + X, a, \h60 + Y, b, \h80 + X, 16 * Y + mode >>

InitAlu ==
    \E X \in 0 .. 15, Y \in 0 .. 15, a \in ByteSamples, b \in ByteSamples, mode \in AluModes :
        Started(slowed(alu_program(X, a, Y, b, mode), 2))

NextAlu == Cycle({NoKeys})

SpecAlu == InitAlu /\ [][NextAlu]_vars

\* The fields of the word at PC, as the instruction set writes them: 8XYN.
next_word == word_at(chip8, chip8.pc)
field_X == (next_word \div 256) % 16
field_Y == (next_word \div 16) % 16
field_N == next_word % 16
about_to_run_alu(mode) ==
    /\ at = "cycle" /\ iters > 0 /\ can_fetch(chip8)
    /\ next_word \div 4096 = 8
    /\ field_N = mode

\* C1: for all registers X, Y (0xF included) holding a and b, the add 8XY4
\* leaves VX = (a + b) mod 256 and VF = 1 iff a + b > 255, VF = 0 otherwise.
C1_AddSetsSumAndCarry ==
    [][ about_to_run_alu(\h4)
        => LET a == chip8.regs[field_X]
               b == chip8.regs[field_Y]
           IN  /\ chip8'.regs[field_X] = (a + b) % 256
               /\ chip8'.regs[15] = IF a + b > 255 THEN 1 ELSE 0 ]_vars

\* C2: for all registers X, Y (0xF included) holding a and b, the subtract
\* 8XY5 leaves VX = (a - b) mod 256 and VF = 0 iff a < b, else 1; the reverse
\* subtract 8XY7 leaves VX = (b - a) mod 256 and VF = 0 iff b < a, else 1.
C2_SubtractSetsDifferenceAndBorrow ==
    [][ /\ about_to_run_alu(\h5)
           => LET a == chip8.regs[field_X]
                  b == chip8.regs[field_Y]
              IN  /\ chip8'.regs[field_X] = (a - b) % 256
                  /\ chip8'.regs[15] = IF a < b THEN 0 ELSE 1
        /\ about_to_run_alu(\h7)
           => LET a == chip8.regs[field_X]
                  b == chip8.regs[field_Y]
              IN  /\ chip8'.regs[field_X] = (b - a) % 256
                  /\ chip8'.regs[15] = IF b < a THEN 0 ELSE 1 ]_vars

--------------------------------------------------------------------------
(* The decoder, checked under SpecDecode: every 16-bit word is loaded as a  *)
(* two-byte program and fetched by the first cycle call.                    *)

InitDecode ==
    \E w \in U16 : Started(load_program(new, << w \div 256, w % 256 >>, 0))

NextDecode == Cycle({NoKeys})

SpecDecode == InitDecode /\ [][NextDecode]_vars

\* The discriminant of a SetRegMode, as the enum declares it.
mode_nibble(mode) ==
    CASE mode = "Copy" -> \h0
      [] mode = "Or" -> \h1
      [] mode = "And" -> \h2
      [] mode = "Xor" -> \h3
      [] mode = "Add" -> \h4
      [] mode = "Subtract" -> \h5
      [] mode = "InverseSubtract" -> \h7
      [] mode = "ShiftLeft" -> \hE
      [] mode = "ShiftRight" -> \h6

\* The word that encodes an instruction, as the comments of enum Opcode give it.
encode(op) ==
    CASE op.kind = "ClearScreen" -> \h00E0
      [] op.kind = "Return" -> \h00EE
      [] op.kind = "JumpTo" -> (IF op.plus_v0 THEN \hB000 ELSE \h1000) + op.addr
      [] op.kind = "Call" -> \h2000 + op.addr
      [] op.kind = "SkipIfRegEqualConst" ->
             (IF op.not_equal THEN \h4000 ELSE \h3000) + 256 * op.reg + op.value
      [] op.kind = "SkipIfRegsEqual" ->
             (IF op.not_equal THEN \h9000 ELSE \h5000) + 256 * op.regs[1] + 16 * op.regs[2]
      [] op.kind = "SetRegToConst" ->
             (IF op.add THEN \h7000 ELSE \h6000) + 256 * op.reg + op.value
      [] op.kind = "SetRegToReg" ->
             \h8000 + 256 * op.regs[1] + 16 * op.regs[2] + mode_nibble(op.mode)
      [] op.kind = "SetAddressReg" -> \hA000 + op.addr
      [] op.kind = "SetRegToRandom" -> \hC000 + 256 * op.reg + op.mask
      [] op.kind = "DrawSprite" -> \hD000 + 256 * op.regs[1] + 16 * op.regs[2] + op.rows
      [] op.kind = "SkipIfKeyInRegPressed" ->
             \hE000 + 256 * op.reg + (IF op.not_pressed THEN \hA1 ELSE \h9E)
      [] op.kind = "WaitForKeyInReg" -> \hF00A + 256 * op.reg
      [] op.kind = "SetRegToDelayTimer" -> \hF007 + 256 * op.reg
      [] op.kind = "SetDelayTimerToReg" -> \hF015 + 256 * op.reg
      [] op.kind = "SetSoundTimerToReg" -> \hF018 + 256 * op.reg
      [] op.kind = "AddRegToAddressReg" -> \hF01E + 256 * op.reg
      [] op.kind = "SetAddressRegToCharInReg" -> \hF029 + 256 * op.reg
      [] op.kind = "RegToBCD" -> \hF033 + 256 * op.reg
      [] op.kind = "DumpRegsToAddr" -> \hF055 + 256 * op.reg
      [] op.kind = "LoadRegsFromAddr" -> \hF065 + 256 * op.reg

SetRegModes ==
    {"Copy", "Or", "And", "Xor", "Add", "Subtract", "InverseSubtract", "ShiftLeft", "ShiftRight"}

\* Every instruction value whose fields are the bit fields of the word w: its
\* address NNN, registers X and Y, constant NN and count N, with every flag and
\* every ALU mode.  Over all words w these are all the instruction values.
instructions_with_fields_of(w) ==
    LET NNN == w % 4096
        X == (w \div 256) % 16
        Y == (w \div 16) % 16
        NN == w % 256
        N == w % 16
    IN  {ClearScreen, Return, Call(NNN), SetAddressReg(NNN), SetRegToRandom(X, NN),
         DrawSprite(X, Y, N), WaitForKeyInReg(X), SetRegToDelayTimer(X),
         SetDelayTimerToReg(X), SetSoundTimerToReg(X), AddRegToAddressReg(X),
         SetAddressRegToCharInReg(X), RegToBCD(X), DumpRegsToAddr(X), LoadRegsFromAddr(X)}
        \cup {JumpTo(NNN, f) : f \in BOOLEAN}
        \cup {SkipIfRegEqualConst(f, X, NN) : f \in BOOLEAN}
        \cup {SkipIfRegsEqual(f, X, Y) : f \in BOOLEAN}
        \cup {SetRegToConst(f, X, NN) : f \in BOOLEAN}
        \cup {SetRegToReg(X, Y, mode) : mode \in SetRegModes}
        \cup {SkipIfKeyInRegPressed(f, X) : f \in BOOLEAN}

\* C5: decoding is injective on the accepted words (the word a decoded
\* instruction encodes to is the word that was fetched), and for every variant
\* and every choice of its fields decoding the word that encodes it yields that
\* variant with those fields.
C5_DecodeInvertsEncode ==
    opcode # NotFetched
    => /\ opcode = from_u16(opcode_bytes)
       /\ opcode.ok => encode(opcode.op) = opcode_bytes
       /\ opcode_bytes = word_at(chip8, PROGRAM_START)
          => \A op \in instructions_with_fields_of(opcode_bytes) :
                 from_u16(encode(op)) = Ok(op)

\* C5's case: the word 0x83AE has been fetched and decoded to a shift left of
\* V3 with Y = 0xA, and executed.
C5_Witness ==
    /\ opcode_bytes = \h83AE
    /\ opcode = Ok(SetRegToReg(3, 10, "ShiftLeft"))
    /\ at = "cycle"
    /\ chip8.pc = PROGRAM_START + 2

\* The words of the 8XYN family whose N is no ALU mode.
invalid_alu_mode(w) == w \div 4096 = \h8 /\ w % 16 \in {\h8, \h9, \hA, \hB, \hC, \hD, \hF}

\* The other words that match no defined pattern.
unrecognized(w) ==
    \/ w \div 4096 = \h0 /\ w \notin {\h00E0, \h00EE}
    \/ w \div 4096 \in {\h5, \h9} /\ w % 16 # 0
    \/ w \div 4096 = \hE /\ w % 256 \notin {\h9E, \hA1}
    \/ w \div 4096 = \hF
       /\ w % 256 \notin {\h07, \h0A, \h15, \h18, \h1E, \h29, \h33, \h55, \h65}

\* C6: a fetched word 8XYN with N in {8,9,A,B,C,D,F} yields the invalid-ALU-mode
\* error carrying N, every other word matching no pattern yields the
\* unrecognized-opcode error carrying the word, and every remaining word
\* decodes to an instruction; cycle returns the decode error it got.
C6_DecodeOutcome ==
    opcode # NotFetched
    => /\ invalid_alu_mode(opcode_bytes)
          => opcode = Err(InvalidModeForSetRegToReg(opcode_bytes % 16))
       /\ unrecognized(opcode_bytes) => opcode = Err(UnrecognizedOpcode(opcode_bytes))
       /\ (~invalid_alu_mode(opcode_bytes) /\ ~unrecognized(opcode_bytes))
          => opcode.ok /\ opcode.op.kind \in {op.kind : op \in instructions_with_fields_of(0)}
       /\ ~opcode.ok => at = "exit" /\ result = OpcodeErr(opcode.err)

\* C6's cases: the word 0x8ABF has been fetched and refused with its mode
\* nibble, and cycle has returned that error.
C6_Witness ==
    /\ opcode_bytes = \h8ABF
    /\ opcode = Err(InvalidModeForSetRegToReg(\hF))
    /\ result = OpcodeErr(InvalidModeForSetRegToReg(\hF))
    /\ at = "exit"

--------------------------------------------------------------------------
(* Draw-sprite, checked under SpecDraw: two instructions per cycle call,    *)
(* two calls of set-up, then the same draw twice in one call; the front end *)
(* may save the machine (F5) between calls.                                 *)

\* The register pairs (X, Y), the coordinates, the row counts.
DrawRegs == {<<0, 1>>, <<15, 1>>, <<0, 15>>, <<2, 2>>}
DrawXs == {0, 61, 255}
DrawYs == {0, 29, 255}
DrawRows == {0, 1, 5, 15}

\* Where the sprite is read: the glyph of A in the font table, the data that
\* follows the code of the program, and the last two bytes of memory.
SPRITE_DATA == PROGRAM_START + 12
DrawAddrs == {FONT_START + 5 * 10, SPRITE_DATA, MEMORY_SIZE - 2}
sprite_data == << \hFF, \h00, \h81 >>

\* What is drawn before the two draws: nothing, the first row of the sprite,
\* or the whole sprite.
background_rows(N) == {0, 1, N}

\* VX := x; VY := y; I := addr; DXY<pre>; DXYN; DXYN; data
draw_program(X, Y, x, y, addr, pre, N) ==
    << \h60 + X, x, \h60 + Y, y, \hA0 + addr \div 256, addr % 256,
       \hD0 + X, 16 * Y + pre, \hD0 + X, 16 * Y + N, \hD0 + X, 16 * Y + N >> \o sprite_data

InitDraw ==
    \E r \in DrawRegs, x \in DrawXs, y \in DrawYs, addr \in DrawAddrs, N \in DrawRows :
        \E pre \in background_rows(N) :
            Started(slowed(draw_program(r[1], r[2], x, y, addr, pre, N), 1))

NextDraw ==
    \/ KeyDownF5
    \/ Cycle({NoKeys})

SpecDraw == InitDraw /\ [][NextDraw]_vars

\* The step about to be taken is an iteration of cycle's loop on a DXYN word.
about_to_draw ==
    at = "cycle" /\ iters > 0 /\ can_fetch(chip8) /\ next_word \div 4096 = \hD

\* Bit (7 - col) of the sprite byte of a row.
sprite_bit(m, row, col) == (mem_read(m.memory, m.address_reg + row) \div 2 ^ (7 - col)) % 2 = 1

\* The pixels the draw at PC toggles.
toggled ==
    {<<(chip8.regs[field_X] + col) % 64, (chip8.regs[field_Y] + row) % 32>> :
        <<row, col>> \in {rc \in (0 .. field_N - 1) \X (0 .. 7) : sprite_bit(chip8, rc[1], rc[2])}}

\* The draw about to run is the second of two equal draws in a row, the
\* machine was saved before the first, and the coordinates are those of the
\* first (they differ when the first draw wrote a coordinate held in VF).
about_to_draw_again ==
    /\ about_to_draw
    /\ iters = 1
    /\ saved_state.pc = chip8.pc - 2
    /\ saved_state.memory = chip8.memory
    /\ word_at(chip8, chip8.pc - 2) = next_word
    /\ saved_state.address_reg = chip8.address_reg
    /\ saved_state.regs[field_X] = chip8.regs[field_X]
    /\ saved_state.regs[field_Y] = chip8.regs[field_Y]

\* C7 as stated: the second of two equal draws leaves the framebuffer as it
\* was before the first, with VF = 1 whenever the sprite has a set bit.
C7_SecondDrawRestoresAndCollides ==
    [][ (about_to_draw_again /\ at' = "cycle")
        => /\ chip8'.screen = saved_state.screen
           /\ toggled # {} => chip8'.regs[15] = 1 ]_vars

\* C7 as amended: the second of two equal draws leaves the framebuffer as it
\* was before the first, with VF = 1 exactly when the first draw set a pixel
\* (some sprite bit fell on a pixel that was clear before the first draw), and
\* VF = 0 otherwise.
C7_SecondDrawRestores ==
    [][ (about_to_draw_again /\ at' = "cycle")
        => /\ chip8'.screen = saved_state.screen
           /\ chip8'.regs[15] = IF toggled \ saved_state.screen # {} THEN 1 ELSE 0
           /\ chip8.screen \ saved_state.screen = toggled \ saved_state.screen ]_vars

\* C7's case: the machine was saved before two equal draws of a sprite with
\* set bits on a framebuffer with lit pixels, both draws have run, the
\* framebuffer is the saved one and the second draw reported a collision.
C7_Witness ==
    /\ at = "loop"
    /\ result = Returned
    /\ opcode.ok /\ opcode.op.kind = "DrawSprite"
    /\ saved_state.pc = chip8.pc - 4
    /\ word_at(chip8, chip8.pc - 4) = word_at(chip8, chip8.pc - 2)
    /\ saved_state.screen # {}
    /\ chip8.screen = saved_state.screen
    /\ chip8.regs[15] = 1

\* C8: a draw toggles exactly the pixels ((VX + col) mod 64, (VY + row) mod 32)
\* whose sprite bit (7 - col) of memory[I + row] is set, with VX and VY as held
\* before the instruction, and leaves VF = 1 iff a toggled pixel was set
\* before, VF = 0 otherwise.
C8_DrawTogglesSpritePixels ==
    [][ (about_to_draw /\ at' = "cycle")
        => /\ chip8'.screen = (chip8.screen \ toggled) \cup (toggled \ chip8.screen)
           /\ chip8'.regs[15] = IF toggled \cap chip8.screen # {} THEN 1 ELSE 0 ]_vars

\* C8's case: a draw from VX = 61, VY = 29 of five rows has wrapped on both
\* axes, lit pixels and cleared others, and reported the collision.
C8_Witness ==
    /\ at = "cycle"
    /\ opcode.ok /\ opcode.op = DrawSprite(0, 1, 5)
    /\ chip8.regs[0] = 61 /\ chip8.regs[1] = 29
    /\ chip8.regs[15] = 1
    /\ <<0, 1>> \in chip8.screen
    /\ <<61, 29>> \notin chip8.screen

--------------------------------------------------------------------------
(* The jump-to-self program under the whole front end, checked under        *)
(* SpecSpin: any calls of cycle, any keys, any speed, saves and restores.   *)

spin_program == << \h12, \h00 >>

InitSpin == Started(load_program(new, spin_program, 0))

NextSpin == Next

SpecSpin == InitSpin /\ [][NextSpin]_vars

--------------------------------------------------------------------------
(* Register dump and load, checked under SpecRegs: one instruction per      *)
(* cycle call; registers are set, dumped or loaded, overwritten, and loaded *)
(* or dumped again; the front end may save the machine between calls.       *)

\* The values V0, V1 and VF are set to, the register index X, and I.
RegsV0 == {0, 9, 255}
RegsV1 == {0, 200}
RegsVF == {0, 77}
RegsX == {0, 1, 2, 15}
RegsAddrs == {FONT_START, \h300, MEMORY_SIZE - 16, MEMORY_SIZE - 2}

\* The low bytes of FX55 and FX65 in the order the program runs them.
RegsOrders == {<< \h55, \h65 >>, << \h65, \h55 >>}

\* V0 := a; V1 := b; VF := c; I := addr; FX<first>; V0 += 1; V1 := 0xAA;
\* VF := 0x55; FX<second>
regs_program(a, b, c, addr, X, order) ==
    << \h60, a, \h61, b, \h6F, c, \hA0 + addr \div 256, addr % 256,
       \hF0 + X, order[1], \h70, \h01, \h61, \hAA, \h6F, \h55, \hF0 + X, order[2] >>

InitRegs ==
    \E a \in RegsV0, b \in RegsV1, c \in RegsVF, addr \in RegsAddrs, X \in RegsX,
       order \in RegsOrders :
        Started(slowed(regs_program(a, b, c, addr, X, order), 0))

NextRegs ==
    \/ KeyDownF5
    \/ Cycle({NoKeys})

SpecRegs == InitRegs /\ [][NextRegs]_vars

\* The step about to be taken is an iteration of cycle's loop on FX<low>.
about_to_run_F(low) ==
    /\ at = "cycle" /\ iters > 0 /\ can_fetch(chip8)
    /\ next_word \div 4096 = \hF
    /\ next_word % 256 = low

\* The machine was saved when about to run the dump FX55 with the X and I of
\* the instruction now at PC, and every instruction from there to PC sets or
\* adds to a register.
dumped_since_save ==
    /\ saved_state.pc < chip8.pc
    /\ word_at(saved_state, saved_state.pc) = \hF055 + 256 * field_X
    /\ saved_state.address_reg = chip8.address_reg
    /\ \A a \in saved_state.pc + 1 .. chip8.pc - 1 :
           (a - saved_state.pc) % 2 = 0 => word_at(chip8, a) \div 4096 \in {6, 7}

\* C12: a completed dump FX55 writes V0..VX to memory[I..I+X] and changes
\* nothing else but PC; a completed load FX65 writes memory[I..I+X] to V0..VX
\* and changes nothing else but PC; a load after a dump with the same X and I
\* leaves V0..VX as they were at the dump.
C12_DumpLoadCopyInclusive ==
    [][ /\ (about_to_run_F(\h55) /\ at' = "cycle")
           => /\ \A a \in 0 .. MEMORY_SIZE - 1 :
                     mem_read(chip8'.memory, a) =
                         IF chip8.address_reg <= a /\ a <= chip8.address_reg + field_X
                         THEN chip8.regs[a - chip8.address_reg]
                         ELSE mem_read(chip8.memory, a)
              /\ chip8' = [chip8 EXCEPT !.pc = chip8.pc + 2, !.memory = chip8'.memory]
        /\ (about_to_run_F(\h65) /\ at' = "cycle")
           => /\ \A r \in 0 .. REGISTER_COUNT - 1 :
                     chip8'.regs[r] =
                         IF r <= field_X THEN mem_read(chip8.memory, chip8.address_reg + r)
                         ELSE chip8.regs[r]
              /\ chip8' = [chip8 EXCEPT !.pc = chip8.pc + 2, !.regs = chip8'.regs]
        /\ (about_to_run_F(\h65) /\ at' = "cycle" /\ dumped_since_save)
           => \A r \in 0 .. field_X : chip8'.regs[r] = saved_state.regs[r] ]_vars

\* C12's case: sixteen registers were dumped to the last sixteen bytes of
\* memory, V0, V1 and VF were overwritten, and the load has brought back the
\* values saved before the dump.
C12_Witness ==
    /\ at = "loop"
    /\ result = Returned
    /\ opcode_bytes = \hFF65
    /\ chip8.address_reg = MEMORY_SIZE - 16
    /\ saved_state.pc = PROGRAM_START + 8
    /\ word_at(saved_state, saved_state.pc) = \hFF55
    /\ mem_read(chip8.memory, MEMORY_SIZE - 1) = 77
    /\ chip8.regs[0] = 9 /\ chip8.regs[1] = 200 /\ chip8.regs[15] = 77
    /\ \A r \in 0 .. 15 : chip8.regs[r] = saved_state.regs[r]

--------------------------------------------------------------------------
(* Binary-coded decimal, checked under SpecBcd: every byte value, in one    *)
(* cycle call of three instructions.                                        *)

BcdRegs == {0, 15}
BcdAddrs == {FONT_START, \h300, MEMORY_SIZE - 3, MEMORY_SIZE - 2}

\* VX := v; I := addr; FX33
bcd_program(X, v, addr) ==
    << \h60 + X, v, \hA0 + addr \div 256, addr % 256, \hF0 + X, \h33 >>

InitBcd ==
    \E X \in BcdRegs, v \in 0 .. 255, addr \in BcdAddrs :
        Started(slowed(bcd_program(X, v, addr), 2))

NextBcd == Cycle({NoKeys})

SpecBcd == InitBcd /\ [][NextBcd]_vars

\* C13: a completed FX33 with VX = v leaves digits h, t, o in 0..9 at
\* memory[I], memory[I+1], memory[I+2] with 100*h + 10*t + o = v (2, 5, 5 for
\* 255) and changes nothing else but PC.
C13_BcdDigits ==
    [][ (about_to_run_F(\h33) /\ at' = "cycle")
        => LET v == chip8.regs[field_X]
               I == chip8.address_reg
               h == mem_read(chip8'.memory, I)
               t == mem_read(chip8'.memory, I + 1)
               o == mem_read(chip8'.memory, I + 2)
           IN  /\ h \in 0 .. 9 /\ t \in 0 .. 9 /\ o \in 0 .. 9
               /\ 100 * h + 10 * t + o = v
               /\ v = 255 => <<h, t, o>> = <<2, 5, 5>>
               /\ \A a \in 0 .. MEMORY_SIZE - 1 :
                      (a < I \/ a > I + 2) => mem_read(chip8'.memory, a) = mem_read(chip8.memory, a)
               /\ chip8' = [chip8 EXCEPT !.pc = chip8.pc + 2, !.memory = chip8'.memory] ]_vars

\* C13's case: FX33 has run with VF = 255 and I three bytes from the end of
\* memory, which now ends in 2, 5, 5.
C13_Witness ==
    /\ at = "cycle"
    /\ opcode_bytes = \hFF33
    /\ chip8.regs[15] = 255
    /\ chip8.address_reg = MEMORY_SIZE - 3
    /\ mem_read(chip8.memory, MEMORY_SIZE - 3) = 2
    /\ mem_read(chip8.memory, MEMORY_SIZE - 2) = 5
    /\ mem_read(chip8.memory, MEMORY_SIZE - 1) = 5

--------------------------------------------------------------------------
(* Save and restore, checked under SpecClone: the whole front end on a      *)
(* program that changes every field of the machine.                         *)

\* V0 := 2; I := 0x220; memory[I] := V0; draw one row at (2, 2); delay := V0;
\* sound := V0; call 0x210; spin.  At 0x210: wait for a key in V1; return.
clone_program ==
    << \h60, \h02, \hA2, \h20, \hF0, \h55, \hD0, \h01, \hF0, \h15, \hF0, \h18,
       \h22, \h10, \h12, \h0E, \hF1, \h0A, \h00, \hEE >>

\* The key vectors get_keys is taken to return under SpecClone.
CloneKeyVectors == {keys_of({}), keys_of({4})}

InitClone == Started(load_program(new, clone_program, 0))

NextClone ==
    \/ KeyDownF5
    \/ KeyDownF6
    \/ KeyDownLeft
    \/ KeyDownRight
    \/ Cycle(CloneKeyVectors)

SpecClone == InitClone /\ [][NextClone]_vars

\* The fields of a machine, one by one.
same_fields(a, b) ==
    /\ a.memory = b.memory
    /\ a.regs = b.regs
    /\ a.address_reg = b.address_reg
    /\ a.pc = b.pc
    /\ a.stack = b.stack
    /\ a.delay_timer = b.delay_timer
    /\ a.sound_timer = b.sound_timer
    /\ a.screen = b.screen
    /\ a.awaiting_key = b.awaiting_key
    /\ a.speed = b.speed

\* The step is a save (F5): the front end's only step that writes the saved
\* machine.
is_save == at = "loop" /\ at' = "loop" /\ saved_state' # saved_state

\* C14: a save leaves a saved machine equal to the running one in every field
\* and the running one as it was; no cycle call, speed change or restore
\* changes the saved machine; a restore leaves the running machine equal in
\* every field to the saved one, which is the machine as it was at the save.
C14_CloneIsIndependentCopy ==
    [][ /\ is_save => same_fields(saved_state', chip8) /\ chip8' = chip8
        /\ (at # "loop" \/ at' # "loop") => saved_state' = saved_state
        /\ (at = "loop" /\ at' = "loop" /\ chip8' # chip8)
           => /\ saved_state' = saved_state
              /\ \/ same_fields(chip8', saved_state)
                 \/ chip8' = [chip8 EXCEPT !.speed = chip8.speed - 1]
                 \/ chip8' = [chip8 EXCEPT !.speed = chip8.speed + 1] ]_vars

\* C14's case: the machine was saved inside the subroutine with a key wait
\* pending, both timers running and a pixel lit; calls of cycle and a speed
\* change later it was restored, and is the saved machine again.
C14_Witness ==
    /\ at = "loop"
    /\ chip8 = saved_state
    /\ Len(chip8.stack) = 1
    /\ chip8.awaiting_key = Some(1)
    /\ chip8.delay_timer > 0
    /\ chip8.screen # {}
    /\ mem_read(chip8.memory, \h220) = 2
    /\ result = Returned
    /\ opcode_bytes = \h120E

--------------------------------------------------------------------------
(* The key wait, checked under SpecWait: the whole front end on programs    *)
(* that wait for a key more than once.                                      *)

\* Wait in V3, wait in V4, spin; and: wait in V3, start again.
WaitPrograms ==
    { << \hF3, \h0A, \hF4, \h0A, \h12, \h04 >>,
      << \hF3, \h0A, \h12, \h00 >> }

InitWait == \E program \in WaitPrograms : Started(load_program(new, program, 0))

NextWait == Next

SpecWait == InitWait /\ [][NextWait]_vars

\* The step is an iteration of cycle's loop that executes FX0A and leaves the
\* wait on its register.
runs_wait ==
    /\ at = "cycle"
    /\ opcode'.ok /\ opcode'.op.kind = "WaitForKeyInReg"
    /\ opcode_bytes' = word_at(chip8, chip8.pc)
    /\ chip8'.awaiting_key = Some(opcode'.op.reg)

\* C15: a wait becomes pending only by a step that executes FX0A (or by the
\* front end restoring a machine saved with one); no step inside a cycle call
\* resolves a wait, whatever keys the call was given, and inside a call the
\* wait changes only by FX0A; the start of a call with a pressed key resolves a
\* pending wait, and the start of a call with no pressed key changes nothing.
C15_WaitResolvedAtNextCallOnly ==
    [][ /\ (~chip8.awaiting_key.some /\ chip8'.awaiting_key.some)
           => \/ runs_wait
              \/ at = "loop" /\ at' = "loop" /\ chip8' = saved_state
        /\ (at = "cycle" /\ chip8.awaiting_key.some)
           => /\ chip8'.awaiting_key.some
              /\ chip8'.awaiting_key = chip8.awaiting_key \/ runs_wait
        /\ (at = "loop" /\ at' = "cycle" /\ chip8.awaiting_key.some /\ pressed(keys') # {})
           => ~chip8'.awaiting_key.some
        /\ (at = "loop" /\ at' = "cycle" /\ pressed(keys') = {})
           => chip8' = chip8 ]_vars

\* C15's case: a wait on V3 was resolved at the start of a call made with keys
\* 2 and 9 pressed, and the wait on V4 recorded later in that same call is
\* still pending at its end.
C15_Witness ==
    /\ at = "cycle"
    /\ iters = 0
    /\ keys = keys_of({2, 9})
    /\ chip8.regs[3] = 9
    /\ chip8.awaiting_key = Some(4)
    /\ opcode_bytes = \hF40A
    /\ chip8.speed = 0

--------------------------------------------------------------------------
(* Execution while a key wait is pending, checked under SpecPending: calls  *)
(* of cycle with any keys at any speed on a program that sets both timers,  *)
(* waits for a key and goes on.                                             *)

\* V0 := 3; delay := V0; sound := V0; wait in V3; then V1 := 5 and jump back
\* to it, for ever.
pending_program ==
    << \h60, \h03, \hF0, \h15, \hF0, \h18, \hF3, \h0A, \h61, \h05, \h12, \h08 >>

InitPending == Started(load_program(new, pending_program, 0))

NextPending ==
    \/ KeyDownLeft
    \/ KeyDownRight
    \/ Cycle(KeyVectors)

SpecPending == InitPending /\ [][NextPending]_vars

\* The machine with no key wait pending.
nowait(m) == [m EXCEPT !.awaiting_key = None]

\* A key wait is pending and the cycle call under way was given no pressed key.
pending_unpressed == chip8.awaiting_key.some /\ pressed(keys) = {}

\* C16: a cycle call made with a wait pending and no key pressed starts
\* speed + 1 iterations on the unchanged machine; each of them fetches the word
\* at PC, moves PC and has the effect the instruction has on the machine
\* without the wait; the call ends in success with both timers decremented.
C16_PendingWaitDoesNotSuspend ==
    [][ /\ (at = "loop" /\ at' = "cycle" /\ chip8.awaiting_key.some /\ pressed(keys') = {})
           => /\ iters' = chip8.speed + 1
              /\ chip8' = chip8
        /\ (at = "cycle" /\ iters > 0 /\ pending_unpressed)
           => /\ at' = "cycle"
              /\ iters' = iters - 1
              /\ opcode_bytes' = word_at(chip8, chip8.pc)
              /\ chip8'.pc # chip8.pc
              /\ nowait(chip8') =
                     nowait(execute_opcode(advance_pc(nowait(chip8)), opcode'.op, keys, 0, FALSE).m)
        /\ (at = "cycle" /\ iters = 0 /\ pending_unpressed)
           => /\ at' = "loop"
              /\ result' = Returned
              /\ chip8' = [chip8 EXCEPT !.delay_timer = ticked(chip8.delay_timer),
                                        !.sound_timer = ticked(chip8.sound_timer)] ]_vars

\* C16's case: at speed 1 the second call recorded the wait, and the third,
\* made with the wait pending and no key pressed, has run its two
\* instructions (V1 = 5, PC back at 0x208) and decremented both timers.
C16_Witness ==
    /\ at = "loop"
    /\ result = Returned
    /\ chip8.speed = 1
    /\ chip8.awaiting_key = Some(3)
    /\ chip8.regs[1] = 5
    /\ chip8.pc = PROGRAM_START + 8
    /\ chip8.delay_timer = 0
    /\ chip8.sound_timer = 1

--------------------------------------------------------------------------
(* Array indices and integer widths, checked under SpecBounds: programs     *)
(* that take PC, I and a key index to the ends of their ranges.             *)

\* The number of additions of 255 that take I from 0xFFF past 2^16 - 1.
adds_to_overflow == (65535 - \hFFF) \div 255 + 1

\* V0 := 255; V1 := the number of additions; I := 0xFFF; then I += V0 and
\* V1 -= 1 until V1 = 0.
overflow_program ==
    << \h60, \hFF, \h61, adds_to_overflow, \hAF, \hFF,
       \hF0, \h1E, \h71, \hFF, \h31, \h00, \h12, \h06 >>

\* Jump to 0xFFF; jump to 0xFFF + V0; skip on key V0 = 16; draw two rows from
\* I = 0xFFF; BCD at I = 0xFFE; dump and load V0..V1 at I = 0xFFF; overflow I.
BoundsPrograms ==
    { << \h1F, \hFF >>,
      << \h60, \hFF, \hBF, \hFF >>,
      << \h60, \h10, \hE0, \h9E >>,
      << \hAF, \hFF, \hD0, \h02 >>,
      << \hAF, \hFE, \hF0, \h33 >>,
      << \hAF, \hFF, \hF1, \h55 >>,
      << \hAF, \hFF, \hF1, \h65 >>,
      overflow_program }

InitBounds == \E program \in BoundsPrograms : Started(load_program(new, program, 0))

NextBounds == Cycle(KeyVectors)

SpecBounds == InitBounds /\ [][NextBounds]_vars

\* C17: every cycle call ends by returning success or a declared runtime
\* error (no index leaves its array, so no call ends in a panic), and I never
\* overflows 16 bits: FX1E leaves I = I + VX.
C17_CycleReturnsDeclaredResult ==
    [][ /\ result' # Panicked
        /\ (about_to_run_F(\h1E) /\ at' = "cycle")
           => chip8'.address_reg = chip8.address_reg + chip8.regs[field_X] ]_vars

--------------------------------------------------------------------------
(* Decode errors, checked under SpecRetry: programs that run into a word    *)
(* that does not decode, and a caller of cycle that takes the error it      *)
(* returns and calls cycle again.                                           *)

\* Wait in V3, then 0xFFFF; V0 := 5, delay := V0, then 0x801F; I := font,
\* draw the glyph, call 0x208, where 0x5001 is.
RetryPrograms ==
    { << \hF3, \h0A, \hFF, \hFF >>,
      << \h60, \h05, \hF0, \h15, \h80, \h1F >>,
      << \hA0, \h50, \hD0, \h05, \h22, \h08, \h00, \h00, \h50, \h01 >> }

InitRetry == \E program \in RetryPrograms : Started(load_program(new, program, 0))

\* cycle called again on the machine whose last call returned a decode error:
\* cycle up to its for loop, as in CycleBegin.
CycleAgain(ks) ==
    /\ at = "exit"
    /\ result.kind = "OpcodeErr"
    /\ chip8' = resolve_key(chip8, ks)
    /\ keys' = ks
    /\ iters' = loop_count(chip8)
    /\ at' = "cycle"
    /\ UNCHANGED <<saved_state, opcode_bytes, opcode, result>>

NextRetry ==
    \/ KeyDownLeft
    \/ KeyDownRight
    \/ Cycle(KeyVectors)
    \/ \E ks \in KeyVectors : CycleAgain(ks)

SpecRetry == InitRetry /\ [][NextRetry]_vars

\* The decode error of a word that does not decode.
decode_error_of(w) ==
    IF invalid_alu_mode(w) THEN InvalidModeForSetRegToReg(w % 16) ELSE UnrecognizedOpcode(w)

\* C18: an iteration of cycle on a word that does not decode ends the call
\* with that decode error wrapped as a runtime error and changes nothing of
\* the machine, so PC is the address of the bad word; a further call starts on
\* the same PC and memory (the unchanged machine when it resolves no key
\* wait), and its first iteration ends it with the same error at the same PC.
C18_DecodeErrorLeavesMachine ==
    [][ /\ (at = "cycle" /\ iters > 0 /\ can_fetch(chip8)
            /\ (invalid_alu_mode(next_word) \/ unrecognized(next_word)))
           => /\ at' = "exit"
              /\ result' = OpcodeErr(decode_error_of(next_word))
              /\ chip8' = chip8
        /\ (at = "exit" /\ at' = "cycle")
           => /\ iters' > 0
              /\ chip8'.pc = chip8.pc
              /\ chip8'.memory = chip8.memory
              /\ (~chip8.awaiting_key.some \/ pressed(keys') = {}) => chip8' = chip8
        /\ (at = "cycle" /\ result.kind = "OpcodeErr")
           => /\ at' = "exit"
              /\ result' = result
              /\ chip8' = chip8 ]_vars

\* C18's case: the first call recorded a wait on V3 and failed on 0xFFFF at
\* 0x202; a further call, made with key 4 pressed, has failed again with the
\* same error at the same PC.
C18_Witness ==
    /\ at = "exit"
    /\ result = OpcodeErr(UnrecognizedOpcode(\hFFFF))
    /\ chip8.pc = PROGRAM_START + 2
    /\ word_at(chip8, chip8.pc) = \hFFFF
    /\ keys = keys_of({4})
    /\ chip8.regs[3] = 4
    /\ ~chip8.awaiting_key.some

--------------------------------------------------------------------------
(* The shifts, checked under SpecShift: every pair of registers, sampled    *)
(* values, the three instructions in one call.                              *)

\* The mode nibbles of shift-right and shift-left.
ShiftModes == {\h6, \hE}

InitShift ==
    \E X \in 0 .. 15, Y \in 0 .. 15, a \in ByteSamples, b \in ByteSamples, mode \in ShiftModes :
        Started(slowed(alu_program(X, a, Y, b, mode), 2))

NextShift == Cycle({NoKeys})

SpecShift == InitShift /\ [][NextShift]_vars

\* C19: shift-left 8XYE of VX = a leaves VF = 1 if a >= 128, else 0, and
\* VX = (2 * a) mod 256; shift-right 8XY6 leaves VF = a mod 2 and VX = a div 2;
\* whatever Y and VY are.
C19_ShiftsSetFlagToShiftedOutBit ==
    [][ /\ about_to_run_alu(\hE)
           => LET a == chip8.regs[field_X]
              IN  /\ chip8'.regs[15] = IF a >= 128 THEN 1 ELSE 0
                  /\ field_X # 15 => chip8'.regs[field_X] = (2 * a) % 256
        /\ about_to_run_alu(\h6)
           => LET a == chip8.regs[field_X]
              IN  /\ chip8'.regs[15] = a % 2
                  /\ field_X # 15 => chip8'.regs[field_X] = a \div 2 ]_vars

--------------------------------------------------------------------------
(* The skips, checked under SpecSkip: two registers are set and one skip    *)
(* instruction runs, in one cycle call made with any of the key vectors.    *)

SkipRegs == {0, 3, 15}
SkipValues == {0, 4, 7, 15, 200}

\* The six skip instructions on registers X, Y and the constant nn.
skip_words(X, Y, nn) ==
    { << \h30 + X, nn >>, << \h40 + X, nn >>, << \h50 + X, 16 * Y >>, << \h90 + X, 16 * Y >>,
      << \hE0 + X, \h9E >>, << \hE0 + X, \hA1 >> }

InitSkip ==
    \E X \in SkipRegs, Y \in SkipRegs, a \in SkipValues, b \in SkipValues :
        \E skip \in skip_words(X, Y, b) :
            Started(slowed(<< \h60 + X, a, \h60 + Y, b >> \o skip, 2))

NextSkip == Cycle(KeyVectors)

SpecSkip == InitSkip /\ [][NextSkip]_vars

\* The word at PC is a skip instruction.
is_skip(w) ==
    \/ w \div 4096 \in {3, 4}
    \/ w \div 4096 \in {5, 9} /\ w % 16 = 0
    \/ w \div 4096 = \hE /\ w % 256 \in {\h9E, \hA1}

\* The condition of the skip instruction w on machine m with the keys ks.
skip_condition(w, m, ks) ==
    LET vx == m.regs[(w \div 256) % 16]
        vy == m.regs[(w \div 16) % 16]
    IN  CASE w \div 4096 = 3 -> vx = w % 256
          [] w \div 4096 = 4 -> vx # w % 256
          [] w \div 4096 = 5 -> vx = vy
          [] w \div 4096 = 9 -> vx # vy
          [] w \div 4096 = \hE /\ w % 256 = \h9E -> vx \in pressed(ks)
          [] w \div 4096 = \hE /\ w % 256 = \hA1 -> vx \notin pressed(ks)

\* C20: a skip instruction at address A (a key skip with VX <= 15) completes
\* and leaves PC = A + 4 when its condition holds, PC = A + 2 otherwise, and
\* changes nothing else of the machine.
C20_SkipsAdvancePC ==
    [][ (at = "cycle" /\ iters > 0 /\ can_fetch(chip8) /\ is_skip(next_word)
         /\ (next_word \div 4096 = \hE => chip8.regs[field_X] <= 15))
        => /\ at' = "cycle"
           /\ chip8' = [chip8 EXCEPT !.pc =
                            IF skip_condition(next_word, chip8, keys)
                            THEN chip8.pc + 4 ELSE chip8.pc + 2] ]_vars

\* C20's case: EX9E at 0x204 has run with V3 = 7 and key 7 pressed, and PC is
\* 0x208.
C20_Witness ==
    /\ at = "cycle"
    /\ opcode = Ok(SkipIfKeyInRegPressed(FALSE, 3))
    /\ chip8.regs[3] = 7
    /\ keys = keys_of({0, 7, 15})
    /\ chip8.pc = PROGRAM_START + 8

--------------------------------------------------------------------------
(* The font table in memory, checked under SpecRegs: the programs there set *)
(* I to an address that may be FONT_START and dump registers to it.         *)

\* C21: the 80 bytes at FONT_START .. FONT_START + 79 equal the font table
\* in every state reached by running a program loaded at PROGRAM_START.
C21_FontNeverOverwritten ==
    \A i \in 0 .. Len(FONTMAP) - 1 :
        mem_read(chip8.memory, FONT_START + i) = FONTMAP[i + 1]


--------------------------------------------------------------------------
(* The writers of the screen, checked under SpecScreen: a program draws a    *)
(* font glyph, runs an instruction of every other kind with the pixels lit, *)
(* waits for a key, clears the screen and draws again.                      *)

\* I := font; draw; V0 := 7; V0 += 1; V1 := V0; the eight other 8XY_ on V1, V0;
\* V2 := random & 0x0F; delay := V0; sound := V0; V1 := delay; I += V0;
\* I := glyph V0; I := 0x300; BCD V0; dump V0..V1; load V0..V1; the four
\* register skips; V0 := 0; the two key skips; jump 0x23E + V0; call 0x242;
\* jump 0x244; return; wait for key in V3; clear screen; draw; jump to self
screen_program ==
    << \hA0, \h50, \hD0, \h05, \h60, \h07, \h70, \h01, \h81, \h00, \h81, \h01,
       \h81, \h02, \h81, \h03, \h81, \h04, \h81, \h05, \h81, \h06, \h81, \h07,
       \h81, \h0E, \hC2, \h0F, \hF0, \h15, \hF0, \h18, \hF1, \h07, \hF0, \h1E,
       \hF0, \h29, \hA3, \h00, \hF0, \h33, \hF1, \h55, \hF1, \h65, \h30, \h01,
       \h40, \h00, \h90, \h10, \h50, \h10, \h60, \h00, \hE0, \h9E, \hE0, \hA1,
       \hB2, \h3E, \h22, \h42, \h12, \h44, \h00, \hEE, \hF3, \h0A, \h00, \hE0,
       \hD0, \h05, \h12, \h4A >>

\* The speeds the program is run at.
ScreenSpeeds == {0, 3}

InitScreen == \E speed \in ScreenSpeeds : Started(slowed(screen_program, speed))

NextScreen == Cycle(KeyVectors)

SpecScreen == InitScreen /\ [][NextScreen]_vars

\* The step about to be taken is an iteration of cycle's loop on an
\* instruction that is not the draw DXYN.
about_to_run_no_draw ==
    at = "cycle" /\ iters > 0 /\ can_fetch(chip8) /\ next_word \div 4096 # \hD

\* The step is the start of a cycle call (the key wait's resolution) or its
\* end (the timer update).
resolves_or_ticks ==
    \/ at = "loop" /\ at' = "cycle"
    \/ at = "cycle" /\ iters = 0

\* C22 as stated: an instruction other than the draw leaves every pixel as it
\* was, and so do the key wait's resolution and the timer update.
C22_OnlyDrawWritesScreen ==
    [][ (about_to_run_no_draw \/ resolves_or_ticks)
        => chip8'.screen = chip8.screen ]_vars

\* C22, amended: an instruction other than the draw and the clear 00E0 leaves
\* every pixel as it was, and so do the key wait's resolution and the timer
\* update; a completed clear 00E0 leaves no pixel lit.
C22_OnlyDrawAndClearWriteScreen ==
    [][ /\ ((about_to_run_no_draw /\ next_word # \h00E0) \/ resolves_or_ticks)
           => chip8'.screen = chip8.screen
        /\ (about_to_run(\h00E0) /\ at' = "cycle")
           => chip8'.screen = {} ]_vars

\* C22's case: with the glyph lit, the key wait on V3 was resolved by key 9 at
\* the start of a call, and the clear that followed has left no pixel lit.
C22_Witness ==
    /\ at = "cycle"
    /\ opcode_bytes = \h00E0
    /\ chip8.pc = PROGRAM_START + 72
    /\ chip8.regs[3] = 9
    /\ chip8.awaiting_key = None
    /\ chip8.screen = {}


--------------------------------------------------------------------------
(* Call and return, checked under SpecCalls: a routine calls itself until   *)
(* its counter is used up, every call returns, and a last return finds the  *)
(* stack empty.                                                             *)

\* The numbers of nested calls.
CallDepths == {1, 2, 3}

\* The speeds the programs are run at.
CallSpeeds == {0, 1, 5}

\* 0x200: V0 := k; 0x202: call 0x208; 0x204: V1 := 1; 0x206: return;
\* 0x208: V0 -= 1; 0x20A: skip if V0 = 0; 0x20C: call 0x208; 0x20E: return
calls_program(k) ==
    << \h60, k, \h22, \h08, \h61, \h01, \h00, \hEE,
       \h70, \hFF, \h30, \h00, \h22, \h08, \h00, \hEE >>

InitCalls ==
    \E k \in CallDepths, speed \in CallSpeeds : Started(slowed(calls_program(k), speed))

NextCalls == Cycle({NoKeys})

SpecCalls == InitCalls /\ [][NextCalls]_vars

\* The step about to be taken is an iteration of cycle's loop on a call 2NNN.
about_to_call ==
    at = "cycle" /\ iters > 0 /\ can_fetch(chip8) /\ next_word \div 4096 = 2

\* The address following the first call of calls_program.
after_first_call == PROGRAM_START + 4

\* C23: the stack starts empty; a call 2NNN at address A appends A + 2 to the
\* stack and sets PC = NNN; a return on a non-empty stack sets PC to the last
\* address pushed and removes it; a return on an empty stack and every other
\* step leave the stack as it was, so that the depth is the number of calls
\* less the number of successful returns; the return that undoes the first of
\* k nested calls leaves the stack empty and PC after that call.
C23_CallReturnLifo ==
    /\ chip8.stack = << >>
    /\ [][ /\ about_to_call
              => /\ chip8'.stack = Append(chip8.stack, chip8.pc + 2)
                 /\ chip8'.pc = next_word % 4096
           /\ (about_to_run(\h00EE) /\ chip8.stack # << >>)
              => /\ chip8'.pc = chip8.stack[Len(chip8.stack)]
                 /\ chip8'.stack = SubSeq(chip8.stack, 1, Len(chip8.stack) - 1)
                 /\ at' = "cycle"
           /\ (about_to_run(\h00EE) /\ chip8.stack = << >>)
              => /\ chip8'.stack = << >>
                 /\ result' = EmptyCallStack
           /\ ~(about_to_call \/ about_to_run(\h00EE))
              => chip8'.stack = chip8.stack
           /\ (about_to_run(\h00EE) /\ Len(chip8.stack) = 1)
              => /\ chip8'.pc = after_first_call
                 /\ chip8'.stack = << >> ]_vars

\* C23's case: three nested calls have been followed by three returns, and
\* the instruction after the first call has run on the empty stack.
C23_Witness ==
    /\ word_at(chip8, PROGRAM_START) = \h6003
    /\ opcode_bytes = \h6101
    /\ chip8.regs[0] = 0
    /\ chip8.regs[1] = 1
    /\ chip8.stack = << >>
    /\ chip8.pc = after_first_call + 2


--------------------------------------------------------------------------
(* The values of the flag register, checked under SpecShift.                *)

\* The word w is an instruction that writes the flag: 8XY4, 8XY5, 8XY7, 8XY6
\* or 8XYE with X # 0xF, or DXYN.
writes_flag(w) ==
    \/ w \div 4096 = 8 /\ w % 16 \in {\h4, \h5, \h7, \h6, \hE} /\ (w \div 256) % 16 # 15
    \/ w \div 4096 = \hD

\* C24: a completed instruction that writes the flag leaves VF = 0 or VF = 1.
C24_FlagIsZeroOrOne ==
    [][ (at = "cycle" /\ iters > 0 /\ can_fetch(chip8) /\ writes_flag(next_word)
         /\ at' = "cycle")
        => chip8'.regs[15] \in {0, 1} ]_vars


--------------------------------------------------------------------------
(* The speed under the front end's events, checked under Spec.              *)

==========================================================================
